---- MODULE Spec2Model ----
(***************************************************************************)
(* A model of the ReviewsSection component                                 *)
(* (src/src/components/ReviewsSection.tsx; src/unnamed/part_000 is an      *)
(* earlier revision of the same component whose logic differs only in the  *)
(* emphasis timer's delay, 600 ms instead of 700 ms).                      *)
(*                                                                         *)
(* The component is a React function component: its props (artists,        *)
(* reviews, selectedArtist, onSelectArtist) are owned by the parent, its   *)
(* state is reviewFilter, isJiggling and tabStyle, and it has two passive  *)
(* effects, one that measures the selected button and keeps a window       *)
(* resize listener, one that raises isJiggling and arms a timer that       *)
(* lowers it.  The model follows React's contract for such a component:    *)
(*   - a render is a pure function of props and state, so what is on       *)
(*     screen (filteredReviews, avgRating) is a state function;            *)
(*   - the passive effects of a commit run in a later step (FlushEffects), *)
(*     and always before the next render of the component;                 *)
(*   - an effect whose dependencies changed first runs the clean-up its    *)
(*     previous run returned.                                              *)
(***************************************************************************)
EXTENDS Integers, Sequences, FiniteSets, TLC

\* ------------------------------------------------------------------ values

\* JavaScript's null, as a value of the string | null prop selectedArtist.
NULL == "<null>"

\* No callback: the resize effect has not run yet (no clean-up to call).
NO_CALLBACK == "<none>"

\* The artists prop: the identifiers of the providers, in display order.
Artists == <<"a1", "a2">>

ArtistIds == {Artists[i] : i \in 1..Len(Artists)}

\* The values the parent may pass as selectedArtist: null, a provider's
\* identifier, an identifier no provider owns, and the empty string.
SelValues == {NULL, "", "zz"} \cup ArtistIds

\* The values of the reviewFilter state: the four modes of the filter and a
\* string that is none of them (the state is typed string).
FilterModes == {"all", "5", "4", "photos", "other"}

\* ------------------------------------------------------------ review data

Review(id, artistId, rating, hasPhoto) ==
  [id |-> id, artistId |-> artistId, rating |-> rating, hasPhoto |-> hasPhoto]

\* The reviews the collections are drawn from: both providers, an orphaned
\* provider reference, ratings inside and outside 1..5, with and without photo.
ReviewPool ==
  { Review("r1", "a1", 5, TRUE),
    Review("r2", "a1", 4, FALSE),
    Review("r3", "a2", 5, FALSE),
    Review("r4", "a2", 3, TRUE),
    Review("r5", "zz", 6, FALSE),
    Review("r6", "a1", 0, TRUE),
    Review("r7", "a2", -1, FALSE) }

\* The longest review collection the filter is checked on.
MaxReviews == 4

ReviewLists == UNION { [1..n -> ReviewPool] : n \in 0..MaxReviews }

\* The collection the component is mounted with when its lifecycle is checked.
SampleReviews ==
  << Review("r1", "a1", 5, TRUE), Review("r2", "a1", 4, FALSE),
     Review("r3", "a2", 5, FALSE), Review("r4", "a2", 3, TRUE) >>

\* ------------------------------------------------- filter and aggregation

\* JavaScript truthiness of a string | null value: null and "" are falsy.
Truthy(s) == s # NULL /\ s # ""

\* A filter callback that compares the rating with > 4 for the '4' mode.
FilterPredicate_Gt4(r, sel, filter) ==
  IF Truthy(sel) /\ r.artistId # sel THEN FALSE
  ELSE IF filter = "all" THEN TRUE
  ELSE IF filter = "5" THEN r.rating = 5
  ELSE IF filter = "4" THEN r.rating > 4
  ELSE IF filter = "photos" THEN r.hasPhoto
  ELSE TRUE

\* The callback of reviews.filter: one early return per line of the source.
FilterPredicate(r, sel, filter) ==
  IF Truthy(sel) /\ r.artistId # sel THEN FALSE
  ELSE IF filter = "all" THEN TRUE
  ELSE IF filter = "5" THEN r.rating = 5
  ELSE IF filter = "4" THEN r.rating >= 4
  ELSE IF filter = "photos" THEN r.hasPhoto
  ELSE TRUE

RECURSIVE Reverse(_)
Reverse(s) == IF s = <<>> THEN <<>> ELSE Append(Reverse(Tail(s)), Head(s))

\* A filter that collects the kept reviews in front of the result.
FilteredReviews_Unshift(R, sel, filter) ==
  Reverse(SelectSeq(R, LAMBDA r : FilterPredicate(r, sel, filter)))

\* Array.prototype.filter: the elements the callback keeps, in array order.
FilteredReviews(R, sel, filter) ==
  SelectSeq(R, LAMBDA r : FilterPredicate(r, sel, filter))

RECURSIVE SumRatings(_)
\* filteredReviews.reduce((sum, r) => sum + r.rating, 0)
SumRatings(s) == IF s = <<>> THEN 0 ELSE SumRatings(Tail(s)) + Head(s).rating

\* A string is a sequence of one-character strings.
DigitChar(d) ==
  CASE d = 0 -> "0" [] d = 1 -> "1" [] d = 2 -> "2" [] d = 3 -> "3"
    [] d = 4 -> "4" [] d = 5 -> "5" [] d = 6 -> "6" [] d = 7 -> "7"
    [] d = 8 -> "8" [] d = 9 -> "9"

RECURSIVE NatToChars(_)
\* The decimal digits of a natural number, most significant first.
NatToChars(n) ==
  IF n < 10 THEN <<DigitChar(n)>>
  ELSE Append(NatToChars(n \div 10), DigitChar(n % 10))

Abs(x) == IF x < 0 THEN -x ELSE x

\* A toFixed(1) that cuts the digits after the first decimal off.
ToFixed1_Truncate(num, den) ==
  LET n == (10 * Abs(num)) \div den
  IN  (IF num < 0 THEN <<"-">> ELSE <<>>)
        \o NatToChars(n \div 10) \o <<".">> \o <<DigitChar(n % 10)>>

\* (num / den).toFixed(1) for den > 0: the sign if the quotient is negative,
\* then the integer n for which n/10 is nearest to |num/den| (the larger n
\* on a tie), written with one digit after the point.  The quotient is a
\* double in the source; for den < 20 a tie is a multiple of 1/4, which a
\* double holds exactly, and no other quotient lies within a double's
\* rounding error of a tie, so rounding the exact quotient gives the same n.
ToFixed1(num, den) ==
  LET n == (20 * Abs(num) + den) \div (2 * den)
  IN  (IF num < 0 THEN <<"-">> ELSE <<>>)
        \o NatToChars(n \div 10) \o <<".">> \o <<DigitChar(n % 10)>>

\* An average without the guard on the length: 0 / 0 is NaN, and
\* NaN.toFixed(1) is "NaN".
AvgRating_NoGuard(fr) ==
  IF Len(fr) = 0 THEN <<"N", "a", "N">>
  ELSE ToFixed1(SumRatings(fr), Len(fr))

\* avgRating: '0.0' for an empty list, else the mean with one decimal.
AvgRating(fr) ==
  IF Len(fr) > 0 THEN ToFixed1(SumRatings(fr), Len(fr))
  ELSE <<"0", ".", "0">>

\* ------------------------------------------------------------------ layout

Min(a, b) == IF a < b THEN a ELSE b
Max(a, b) == IF a > b THEN a ELSE b

\* getBoundingClientRect reports fractions of a pixel: the model counts
\* lengths in the browser's layout unit, 1/64 px.
PxUnits == 64

\* n px, in layout units.
Px(n) == n * PxUnits

\* The widths of the window the component is laid out in, in px.
Viewports == {360, 412}

\* px-5 on the section: the row starts 20 px from the window's left edge.
RowLeft == 20

\* min-w-[72px] on every selector button: the least width of a button.
ButtonWidth == 72

\* duration-200 on the labels: the time a change of face takes, in ms.
TransitionMs == 200

\* The keys the rendered buttons register under: '_all', then artist.id.
ButtonKeys == {"_all"} \cup ArtistIds

\* The buttons of the row in display order: 'ALL' first, then the artists.
ButtonOrder == <<"_all">> \o Artists

\* The position of a key's button in the row.
ButtonIndex(key) == CHOOSE i \in 1..Len(ButtonOrder) : ButtonOrder[i] = key

\* The key of the button the render highlights: 'ALL' when the selection
\* is falsy (!selectedArtist), else the selected identifier's.
HighlightedKey(sel) == IF Truthy(sel) THEN sel ELSE "_all"

\* The face a label is laid out in: the fonts have a regular and a bold
\* face, and a label whose weight is in transition is drawn in one of the
\* two, never in between.
FontFaces == {"medium", "bold"}

\* The faces the labels have when no transition is under way: bold for the
\* highlighted button's, medium for the others.
SettledFaces(sel) ==
  [k \in ButtonKeys |-> IF k = HighlightedKey(sel) THEN "bold" ELSE "medium"]

\* Labels that fit a 72 px button in both faces.
PlainLabels == [k \in ButtonKeys |-> [medium |-> Px(40), bold |-> Px(44)]]

\* The widths, in layout units, of the labels ('All Artists', artist.name)
\* in the medium and in the bold face; they are the font's and the names'.
\*   - every label fits a 72 px button in both faces;
\*   - 'All Artists' is wider than 72 px in both faces, as in a wide font;
\*   - the same, and the first artist has a long name.
LabelSets ==
  { PlainLabels,
    [k \in ButtonKeys |->
       IF k = "_all" THEN [medium |-> 4623, bold |-> 4966]
       ELSE IF k = Artists[1] THEN [medium |-> 1509, bold |-> 1594]
       ELSE [medium |-> 1022, bold |-> 1115]],
    [k \in ButtonKeys |->
       IF k = "_all" THEN [medium |-> 4623, bold |-> 4966]
       ELSE IF k = Artists[1] THEN [medium |-> 10150, bold |-> 10833]
       ELSE [medium |-> 1022, bold |-> 1115]] }

\* The width of a key's label in the face it is laid out in.
LabelWidth(key, lab, faces) ==
  IF faces[key] = "bold" THEN lab[key].bold ELSE lab[key].medium

\* The width of a key's button: that of its label (the label does not wrap
\* in a flex-shrink-0 item), at least min-w; the circle above the label is
\* 48 to 64 px wide and never the widest part.
BtnWidth(key, lab, faces) ==
  Max(Px(ButtonWidth), LabelWidth(key, lab, faces))

RECURSIVE WidthsUpTo(_, _, _)
\* The sum of the widths of the first i buttons of the row.
WidthsUpTo(i, lab, faces) ==
  IF i = 0 THEN 0
  ELSE WidthsUpTo(i - 1, lab, faces) + BtnWidth(ButtonOrder[i], lab, faces)

\* row.getBoundingClientRect().left
RowRectLeft(vp) == Px(RowLeft)

\* The space before the i-th of n buttons that leave free layout units in
\* a justify-evenly row, the widths of the buttons before it apart: i of
\* the n + 1 equal shares of the free space, in whole layout units as the
\* browser places them (the first share rounded down, the sums of the next
\* to the nearest unit, down on a tie).  Buttons that leave no space are
\* laid out from the row's start (the row is not scrolled).
SpaceBefore(i, n, free) ==
  IF free <= 0 THEN 0
  ELSE IF i = 1 THEN free \div (n + 1)
  ELSE (2 * i * free + n) \div (2 * (n + 1))

\* btn.getBoundingClientRect() of a registered key in a window vp px wide
\* whose labels have the widths lab and the faces faces: the row is a flex
\* container with justify-evenly, so the space the buttons leave is shared
\* evenly before, between and after them.
BtnRect(key, vp, lab, faces) ==
  LET n    == Len(ButtonOrder)
      free == Px(vp - 2 * RowLeft) - WidthsUpTo(n, lab, faces)
      i    == ButtonIndex(key)
  IN  [left  |-> Px(RowLeft) + SpaceBefore(i, n, free)
                   + WidthsUpTo(i - 1, lab, faces),
       width |-> BtnWidth(key, lab, faces)]

\* tabStyle: null, or the { left, width } last passed to setTabStyle.
TabNull == [set |-> FALSE, left |-> 0, width |-> 0]

\* const key = selectedArtist ?? '_all'
KeyOf(sel) == IF sel = NULL THEN "_all" ELSE sel

\* A measurement that looks the button up under the key of the first artist
\* whatever the selection is.
UpdateTabPosition_FirstKey(sel, refs, row, vp, lab, faces, style) ==
  LET key == Artists[1]
  IN  IF key \notin refs \/ ~row THEN style
      ELSE [set   |-> TRUE,
            left  |-> BtnRect(key, vp, lab, faces).left - RowRectLeft(vp),
            width |-> BtnRect(key, vp, lab, faces).width]

\* A measurement that hides the indicator when the button or the row is
\* not found.
UpdateTabPosition_Reset(sel, refs, row, vp, lab, faces, style) ==
  LET key == KeyOf(sel)
  IN  IF key \notin refs \/ ~row THEN TabNull
      ELSE [set   |-> TRUE,
            left  |-> BtnRect(key, vp, lab, faces).left - RowRectLeft(vp),
            width |-> BtnRect(key, vp, lab, faces).width]

\* updateTabPosition, as the callback that captured the selection sel: the
\* tabStyle it leaves, given the registered buttons, the row ref, the
\* window's width, the layout at the time of the call (the labels' widths
\* and faces) and the tabStyle before.
UpdateTabPosition(sel, refs, row, vp, lab, faces, style) ==
  LET key == KeyOf(sel)
  IN  IF key \notin refs \/ ~row THEN style
      ELSE [set   |-> TRUE,
            left  |-> BtnRect(key, vp, lab, faces).left - RowRectLeft(vp),
            width |-> BtnRect(key, vp, lab, faces).width]

RECURSIVE RunListeners(_, _, _, _, _, _, _)
\* A resize event: the window calls its listeners in registration order.
RunListeners(ls, refs, row, vp, lab, faces, style) ==
  IF ls = <<>> THEN style
  ELSE RunListeners(Tail(ls), refs, row, vp, lab, faces,
                    UpdateTabPosition(Head(ls), refs, row, vp, lab, faces,
                                      style))

\* Whether a listener of ls reaches setTabStyle.
ListenerSetsState(ls, refs, row) ==
  \E i \in 1..Len(ls) : KeyOf(ls[i]) \in refs /\ row

\* removeEventListener: the sequence without the callback cb.
RemoveListener(ls, cb) == SelectSeq(ls, LAMBDA c : c # cb)

\* addEventListener: a callback already registered is not added again.
AddListener(ls, cb) ==
  IF \E i \in 1..Len(ls) : ls[i] = cb THEN ls ELSE Append(ls, cb)

\* ------------------------------------------------------------------ timers

\* setTimeout delay of ReviewsSection.tsx, in ms.
JiggleMs == 700

\* setTimeout delay of the earlier revision, in ms.
JiggleMsEarlier == 600

\* The time one Tick step lets pass, in ms.
TickMs == 300

\* How many selection changes the changes counter tells apart.
MaxChanges == 2

\* ------------------------------------------------------------------- state

VARIABLES
  reviews,          \* prop: the review collection
  selectedArtist,   \* prop: the parent's selection, as of the last commit
  reviewFilter,     \* state: the quality filter
  isJiggling,       \* state: the emphasis flag
  tabStyle,         \* state: the indicator geometry
  buttonRefs,       \* buttonRefs.current: the keys with a registered button
  artistRowRef,     \* artistRowRef.current is the row element (not null)
  mounted,          \* the component is mounted
  effectsPending,   \* the last commit's effects or clean-ups have not run
  listeners,        \* window's resize listeners: the selection each captured
  callback,         \* the callback the resize effect's clean-up removes
  timers,           \* pending timeouts: [id, remaining]
  timer,            \* the timeout id the timer effect's clean-up clears
  jiggleMs,         \* the delay of the deployed revision
  viewport,         \* the window's width, in px
  labels,           \* the widths of the buttons' labels in both faces
  faces,            \* the face each label is laid out in
  elapsed,          \* ms since the last mount or selection change (capped)
  changes,          \* selection changes since mount (capped)
  prevSelected,     \* the selection before the latest selection change
  staleUpdate,      \* a state setter was called after unmount
  lastEvent         \* the last step: its kind and what it called

vars == << reviews, selectedArtist, reviewFilter, isJiggling, tabStyle,
           buttonRefs, artistRowRef, mounted, effectsPending, listeners,
           callback, timers, timer, jiggleMs, viewport, labels, faces,
           elapsed, changes, prevSelected, staleUpdate, lastEvent >>

\* What is on screen: the render's two derived values.
filteredReviews == FilteredReviews(reviews, selectedArtist, reviewFilter)
avgRating == AvgRating(filteredReviews)

\* What a step did: its kind, the button clicked, the selection before it,
\* the arguments it passed to onSelectArtist, the keys updateTabPosition
\* looked up, and the pending timeouts its clearTimeout calls cancelled.
Event(kind, key, selBefore, calls, measured, cleared) ==
  [kind |-> kind, key |-> key, selBefore |-> selBefore,
   calls |-> calls, measured |-> measured, cleared |-> cleared]

\* The state after the first render is committed with the props the parent
\* mounts the component with: R the review collections it may pass, D the
\* timer delays of the deployed revision, V the window's widths, L the
\* widths of the labels.  A first render starts no transition: the labels
\* are laid out in their settled faces.
InitWith(R, D, V, L) ==
  /\ reviews \in R
  /\ selectedArtist \in SelValues
  /\ reviewFilter = "all"
  /\ isJiggling = FALSE
  /\ tabStyle = TabNull
  /\ buttonRefs = ButtonKeys
  /\ artistRowRef = TRUE
  /\ mounted = TRUE
  /\ effectsPending = TRUE
  /\ listeners = <<>>
  /\ callback = NO_CALLBACK
  /\ timers = {}
  /\ timer = 0
  /\ jiggleMs \in D
  /\ viewport \in V
  /\ labels \in L
  /\ faces = SettledFaces(selectedArtist)
  /\ elapsed = 0
  /\ changes = 0
  /\ prevSelected = selectedArtist
  /\ staleUpdate = FALSE
  /\ lastEvent = Event("mount", "", selectedArtist, <<>>, <<>>, {})

Init ==
  InitWith({SampleReviews}, {JiggleMs, JiggleMsEarlier}, Viewports, LabelSets)

\* ----------------------------------------------------------------- effects

\* clearTimeout(id): the pending timeouts without the one of that id.
ClearTimeout(ts, id) == {t \in ts : t.id # id}

\* The id setTimeout returns: one that no pending timeout has and that the
\* clean-up closure does not hold (the browser never reuses an id).
NewTimerId(ts, held) ==
  CHOOSE n \in 1..(Cardinality(ts) + 2) :
    /\ n # held
    /\ \A t \in ts : t.id # n
    /\ \A m \in 1..(n - 1) : m = held \/ \E t \in ts : t.id = m

\* A timer effect that arms the timeout and leaves the flag as it is.
JiggleOn_Missing(flag) == flag

\* setIsJiggling(true)
JiggleOn(flag) == TRUE

\* window.removeEventListener('resize', updateTabPosition) of the clean-up
RemoveResizeListener(ls, cb) == RemoveListener(ls, cb)

\* The passive effects of the last commit.  Both depend on selectedArtist
\* (the first through the identity of updateTabPosition), so both run after
\* the mount and after every commit that changed selectedArtist: first the
\* clean-ups of their previous run, then their bodies.  The state they set
\* is committed by the render they schedule, whose effects have unchanged
\* dependencies and do not run.  The measurement reads the layout as it is
\* when the effects run, with the labels' transitions where they are.
FlushEffects ==
  /\ mounted /\ effectsPending
  /\ LET ls == IF callback = NO_CALLBACK THEN listeners
               ELSE RemoveResizeListener(listeners, callback)
         ts == IF timer = 0 THEN timers ELSE ClearTimeout(timers, timer)
         id == NewTimerId(ts, timer)
     IN  /\ tabStyle' = UpdateTabPosition(selectedArtist, buttonRefs,
                                          artistRowRef, viewport, labels,
                                          faces, tabStyle)
         /\ listeners' = AddListener(ls, selectedArtist)
         /\ callback' = selectedArtist
         /\ isJiggling' = JiggleOn(isJiggling)
         /\ timers' = ts \cup {[id |-> id, remaining |-> jiggleMs]}
         /\ timer' = id
  /\ effectsPending' = FALSE
  /\ lastEvent' = Event("effects", "", selectedArtist, <<>>,
                        <<KeyOf(selectedArtist)>>,
                        IF timer = 0 THEN {}
                        ELSE timers \ ClearTimeout(timers, timer))
  /\ UNCHANGED << reviews, selectedArtist, reviewFilter, buttonRefs,
                  artistRowRef, mounted, jiggleMs, viewport, labels, faces,
                  elapsed, changes, prevSelected, staleUpdate >>

\* --------------------------------------------------------------- selection

\* The parent sets its selection to s and renders the component with it.
\* A commit with a changed selectedArtist leaves both effects to run, and
\* the labels whose class changed (font-bold, font-medium) to their
\* transitions: the commit itself leaves their faces as they are.
ParentApplies(s) ==
  /\ selectedArtist' = s
  /\ effectsPending' = (s # selectedArtist)
  /\ elapsed' = IF s # selectedArtist THEN 0 ELSE elapsed
  /\ changes' = IF s # selectedArtist THEN Min(changes + 1, MaxChanges)
                ELSE changes
  /\ prevSelected' = IF s # selectedArtist THEN selectedArtist
                     ELSE prevSelected

\* onClick of the 'ALL' button: the argument passed to onSelectArtist.
OnClickAll == NULL

\* An artist button that asks for its artist whether selected or not.
OnClickArtist_NoToggle(sel, id) == id

\* onClick of an artist's button: onSelectArtist(isSelected ? null : id).
OnClickArtist(sel, id) == IF sel = id THEN NULL ELSE id

\* A click on the 'ALL' button; the parent applies the request.
ClickAll ==
  /\ mounted /\ ~effectsPending /\ "_all" \in buttonRefs
  /\ ParentApplies(OnClickAll)
  /\ lastEvent' = Event("clickAll", "_all", selectedArtist, <<OnClickAll>>,
                        <<>>, {})
  /\ UNCHANGED << reviews, reviewFilter, isJiggling, tabStyle, buttonRefs,
                  artistRowRef, mounted, listeners, callback, timers, timer,
                  jiggleMs, viewport, labels, faces, staleUpdate >>

\* A click on the button of artist a; the parent applies the request.
ClickArtist(a) ==
  /\ mounted /\ ~effectsPending /\ a \in buttonRefs
  /\ ParentApplies(OnClickArtist(selectedArtist, a))
  /\ lastEvent' = Event("clickArtist", a, selectedArtist,
                        <<OnClickArtist(selectedArtist, a)>>, <<>>, {})
  /\ UNCHANGED << reviews, reviewFilter, isJiggling, tabStyle, buttonRefs,
                  artistRowRef, mounted, listeners, callback, timers, timer,
                  jiggleMs, viewport, labels, faces, staleUpdate >>

\* The parent changes its selection on its own (the value is its state).
ParentSelects(s) ==
  /\ mounted /\ ~effectsPending /\ s # selectedArtist
  /\ ParentApplies(s)
  /\ lastEvent' = Event("parent", "", selectedArtist, <<>>, <<>>, {})
  /\ UNCHANGED << reviews, reviewFilter, isJiggling, tabStyle, buttonRefs,
                  artistRowRef, mounted, listeners, callback, timers, timer,
                  jiggleMs, viewport, labels, faces, staleUpdate >>

\* The setter of reviewFilter, called with m.  Nothing in the component
\* calls it: the step is part of FilterSpec only, which evaluates the filter
\* on every value of the state.
SetReviewFilter(m) ==
  /\ mounted /\ ~effectsPending /\ m # reviewFilter
  /\ reviewFilter' = m
  /\ lastEvent' = Event("filter", "", selectedArtist, <<>>, <<>>, {})
  /\ UNCHANGED << reviews, selectedArtist, isJiggling, tabStyle, buttonRefs,
                  artistRowRef, mounted, effectsPending, listeners, callback,
                  timers, timer, jiggleMs, viewport, labels, faces, elapsed,
                  changes, prevSelected, staleUpdate >>

\* ------------------------------------------------------- resize and timers

\* A resize event, after which the window is v px wide (a resize event may
\* leave the width as it was): every registered listener runs.  With the
\* last commit's effects still pending the listener is the previous
\* commit's; the tabStyle it sets is committed with what the effects set.
\* After the unmount commit the listener stays registered until the
\* clean-ups run; the refs are detached by then, so it finds no button.
Resize(v) ==
  /\ v \in Viewports
  /\ viewport' = v
  /\ tabStyle' = RunListeners(listeners, buttonRefs, artistRowRef, v, labels,
                              faces, tabStyle)
  /\ staleUpdate' = (staleUpdate \/
                      (~mounted /\ ListenerSetsState(listeners, buttonRefs, artistRowRef)))
  /\ lastEvent' = Event("resize", "", selectedArtist, <<>>,
                        [i \in 1..Len(listeners) |-> KeyOf(listeners[i])], {})
  /\ UNCHANGED << reviews, selectedArtist, reviewFilter, isJiggling,
                  buttonRefs, artistRowRef, mounted, effectsPending,
                  listeners, callback, timers, timer, jiggleMs, labels, faces,
                  elapsed, changes, prevSelected >>

\* A frame in which the label of button k, whose class changed at a commit
\* (font-bold, font-medium), changes its face: each label runs its own
\* transition, so the labels change one by one, in either order.  No state
\* of the component changes: tabStyle keeps what was measured before.
Animate(k) ==
  /\ mounted
  /\ faces[k] # SettledFaces(selectedArtist)[k]
  /\ faces' = [faces EXCEPT ![k] = SettledFaces(selectedArtist)[k]]
  /\ lastEvent' = Event("animate", k, selectedArtist, <<>>, <<>>, {})
  /\ UNCHANGED << reviews, selectedArtist, reviewFilter, isJiggling, tabStyle,
                  buttonRefs, artistRowRef, mounted, effectsPending,
                  listeners, callback, timers, timer, jiggleMs, viewport,
                  labels, elapsed, changes, prevSelected, staleUpdate >>

\* Time passes while a timeout is running.  The transitions that were under
\* way are over after a tick that is at least as long as a transition.
Tick ==
  /\ \E t \in timers : t.remaining > 0
  /\ timers' = {[id |-> t.id, remaining |-> Max(0, t.remaining - TickMs)] : t \in timers}
  /\ elapsed' = Min(elapsed + TickMs, jiggleMs)
  /\ faces' = IF mounted /\ TickMs >= TransitionMs
              THEN SettledFaces(selectedArtist) ELSE faces
  /\ lastEvent' = Event("tick", "", selectedArtist, <<>>, <<>>, {})
  /\ UNCHANGED << reviews, selectedArtist, reviewFilter, isJiggling, tabStyle,
                  buttonRefs, artistRowRef, mounted, effectsPending,
                  listeners, callback, timer, jiggleMs, viewport, labels,
                  changes, prevSelected, staleUpdate >>

\* The state setter returned by useState: on a mounted component the state
\* takes the new value; on an unmounted one the call is made but the update
\* is dropped, and the state keeps the value it had.
SetState(isMounted, current, value) == IF isMounted THEN value ELSE current

\* A timeout whose delay has passed and that was not cleared runs its
\* callback, setIsJiggling(false): whether or not the effects of the last
\* commit have run, and whether or not the component is still mounted (the
\* clean-up that clears it runs with the effects, or after the unmount).
\* The call on an unmounted component is recorded in staleUpdate.
TimerFire ==
  /\ \E t \in timers :
       /\ t.remaining = 0
       /\ timers' = timers \ {t}
  /\ isJiggling' = SetState(mounted, isJiggling, FALSE)
  /\ staleUpdate' = (staleUpdate \/ ~mounted)
  /\ lastEvent' = Event("timer", "", selectedArtist, <<>>, <<>>, {})
  /\ UNCHANGED << reviews, selectedArtist, reviewFilter, tabStyle, buttonRefs,
                  artistRowRef, mounted, effectsPending, listeners, callback,
                  timer, jiggleMs, viewport, labels, faces, elapsed,
                  changes, prevSelected >>

\* The parent unmounts the component: the commit removes it from the tree
\* and detaches the refs (the button ref callbacks are called with null, the
\* row ref is set to null).  The two effects' clean-ups are passive: they
\* are left to run after the commit.
Unmount ==
  /\ mounted /\ ~effectsPending
  /\ mounted' = FALSE
  /\ effectsPending' = TRUE
  /\ buttonRefs' = {}
  /\ artistRowRef' = FALSE
  /\ lastEvent' = Event("unmount", "", selectedArtist, <<>>, <<>>, {})
  /\ UNCHANGED << reviews, selectedArtist, reviewFilter, isJiggling, tabStyle,
                  listeners, callback, timers, timer, jiggleMs, viewport,
                  labels, faces, elapsed, changes, prevSelected, staleUpdate >>

\* The clean-ups of the two effects after the unmount commit:
\* removeEventListener of the listener the last run added, clearTimeout of
\* the timeout the last run armed (which may have fired since).
FlushCleanUps ==
  /\ ~mounted /\ effectsPending
  /\ effectsPending' = FALSE
  /\ listeners' = RemoveResizeListener(listeners, callback)
  /\ timers' = ClearTimeout(timers, timer)
  /\ lastEvent' = Event("cleanups", "", selectedArtist, <<>>, <<>>,
                        timers \ ClearTimeout(timers, timer))
  /\ UNCHANGED << reviews, selectedArtist, reviewFilter, isJiggling, tabStyle,
                  buttonRefs, artistRowRef, mounted, callback, timer,
                  jiggleMs, viewport, labels, faces, elapsed, changes, prevSelected,
                  staleUpdate >>

\* ---------------------------------------------------------- specifications

Next ==
  \/ FlushEffects
  \/ ClickAll
  \/ \E a \in ArtistIds : ClickArtist(a)
  \/ \E s \in SelValues : ParentSelects(s)
  \/ \E v \in Viewports : Resize(v)
  \/ Tick
  \/ \E k \in ButtonKeys : Animate(k)
  \/ TimerFire
  \/ Unmount
  \/ FlushCleanUps

\* The mounted component, driven by its parent, the window and the clock.
Spec == Init /\ [][Next]_vars

\* The same component with labels that fit their buttons (the flag and its
\* timeout do not read the layout), where the effects and the clean-ups
\* run, time passes and due timeouts fire.
FairSpec ==
  /\ InitWith({SampleReviews}, {JiggleMs, JiggleMsEarlier}, Viewports,
              {PlainLabels})
  /\ [][Next]_vars
  /\ WF_vars(FlushEffects) /\ WF_vars(FlushCleanUps) /\ WF_vars(Tick)
  /\ WF_vars(TimerFire)

NextFilter ==
  \/ FlushEffects
  \/ \E m \in FilterModes : SetReviewFilter(m)

\* The filter and the average on every review collection, selection and
\* filter value.
FilterSpec ==
  InitWith(ReviewLists, {JiggleMs}, {360}, {PlainLabels})
    /\ [][NextFilter]_vars

\* ------------------------------------------------------------------ claims

RECURSIVE IsSubsequence(_, _)
\* s can be had from t by deleting elements of t.
IsSubsequence(s, t) ==
  IF s = <<>> THEN TRUE
  ELSE IF t = <<>> THEN FALSE
  ELSE IF Head(s) = Head(t) THEN IsSubsequence(Tail(s), Tail(t))
  ELSE IsSubsequence(s, Tail(t))

\* The number of places of s that hold x.
Occurrences(x, s) == Cardinality({i \in DOMAIN s : s[i] = x})

RatingsOf(s) == [i \in DOMAIN s |-> s[i].rating]

\* C1: for every review collection, selection value and filter value, the
\* filtered list is a subsequence of the collection: no review appears in it
\* more often than in the collection, and its reviews keep the collection's
\* relative order.
C1_FilteredIsSubsequence ==
  /\ IsSubsequence(filteredReviews, reviews)
  /\ \A i \in DOMAIN filteredReviews :
       Occurrences(filteredReviews[i], filteredReviews)
         <= Occurrences(filteredReviews[i], reviews)

\* C1's case: a selection and a filter mode that drop reviews from the
\* middle of the collection and keep two different ones.
C1_Witness ==
  /\ selectedArtist = "a1"
  /\ reviewFilter = "photos"
  /\ RatingsOf(reviews) = <<5, 4, 3, 0>>
  /\ RatingsOf(filteredReviews) = <<5, 0>>

\* C2: a review passes the provider test if nothing is selected, and
\* otherwise only if its artistId equals the selected identifier: whenever
\* an identifier is selected, whatever string it is, no review of another
\* artistId is in the filtered list.
C2_ProviderMatch ==
  /\ (selectedArtist = NULL /\ reviewFilter = "all") => filteredReviews = reviews
  /\ selectedArtist # NULL =>
       \A i \in DOMAIN filteredReviews :
         filteredReviews[i].artistId = selectedArtist

\* The quality test as the claim states it, for the four modes.
QualityMatch(r, mode) ==
  CASE mode = "all" -> TRUE
    [] mode = "5" -> r.rating = 5
    [] mode = "4" -> r.rating >= 4
    [] mode = "photos" -> r.hasPhoto = TRUE

\* C3: under each of the four modes, a review that passes the provider test
\* is in the filtered list iff it passes the mode's quality test; the rating
\* is compared as it is, inside 1..5 or not.
C3_QualityMatch ==
  reviewFilter \in {"all", "5", "4", "photos"} =>
    \A i \in DOMAIN reviews :
      (selectedArtist = NULL \/ reviews[i].artistId = selectedArtist) =>
        ( (\E j \in DOMAIN filteredReviews : filteredReviews[j] = reviews[i])
            <=> QualityMatch(reviews[i], reviewFilter) )

\* C3's case: ratings 5,4,5,3 under four-plus-star give 5,4,5.
C3_Witness ==
  /\ selectedArtist = NULL
  /\ reviewFilter = "4"
  /\ RatingsOf(reviews) = <<5, 4, 5, 3>>
  /\ RatingsOf(filteredReviews) = <<5, 4, 5>>

IsDigit(c) == c \in {"0", "1", "2", "3", "4", "5", "6", "7", "8", "9"}

DigitValue(c) ==
  CASE c = "0" -> 0 [] c = "1" -> 1 [] c = "2" -> 2 [] c = "3" -> 3
    [] c = "4" -> 4 [] c = "5" -> 5 [] c = "6" -> 6 [] c = "7" -> 7
    [] c = "8" -> 8 [] c = "9" -> 9

\* s without a leading minus sign.
Unsigned(s) == IF s # <<>> /\ Head(s) = "-" THEN Tail(s) ELSE s

\* s is a decimal numeral with exactly one digit after the point.
IsOneDecimal(s) ==
  LET u == Unsigned(s)
  IN  /\ Len(u) >= 3
      /\ u[Len(u) - 1] = "."
      /\ \A i \in 1..Len(u) : i # Len(u) - 1 => IsDigit(u[i])

RECURSIVE DigitsValue(_, _)
\* The number the first n characters of u, all digits, denote.
DigitsValue(u, n) ==
  IF n = 0 THEN 0 ELSE 10 * DigitsValue(u, n - 1) + DigitValue(u[n])

\* Ten times the number the one-decimal numeral s denotes.
TenthsOf(s) ==
  LET u == Unsigned(s)
      v == 10 * DigitsValue(u, Len(u) - 2) + DigitValue(u[Len(u)])
  IN  IF u = s THEN v ELSE -v

RECURSIVE RatingTotal(_, _)
\* The sum of the ratings of the first n reviews of s.
RatingTotal(s, n) ==
  IF n = 0 THEN 0 ELSE RatingTotal(s, n - 1) + s[n].rating

\* C4: when the filtered list is not empty, the average shown is a numeral
\* with exactly one decimal digit, and no other such numeral is nearer to
\* the sum of the filtered ratings divided by their number.
C4_AverageIsRoundedMean ==
  Len(filteredReviews) > 0 =>
    /\ IsOneDecimal(avgRating)
    /\ LET n   == Len(filteredReviews)
           sum == RatingTotal(filteredReviews, n)
       IN  2 * Abs(TenthsOf(avgRating) * n - 10 * sum) <= n

\* C4's case: the ratings 5,4,5 are shown as 4.7.
C4_Witness ==
  /\ RatingsOf(filteredReviews) = <<5, 4, 5>>
  /\ reviewFilter = "all"
  /\ avgRating = <<"4", ".", "7">>

\* C5: whenever the filtered list is empty, the average shown is "0.0".
C5_EmptyAverage ==
  filteredReviews = <<>> => avgRating = <<"0", ".", "0">>

\* C5's case: a selected provider none of whose reviews passes the filter.
C5_Witness ==
  /\ reviews # <<>>
  /\ selectedArtist = "a2"
  /\ reviewFilter = "5"
  /\ filteredReviews = <<>>
  /\ avgRating = <<"0", ".", "0">>

\* C6: a click on the 'ALL' button calls onSelectArtist once, with null; a
\* click on an artist's button calls it once, with null if that artist is
\* the selection and with the artist's id otherwise; the selection the parent
\* holds after the click is the one requested, and it changes in no step but
\* a click or the parent's own change.
C6_SelectionRequests ==
  /\ [](lastEvent.kind = "clickAll" =>
          /\ lastEvent.calls = <<NULL>>
          /\ selectedArtist = NULL)
  /\ [](lastEvent.kind = "clickArtist" =>
          /\ lastEvent.calls =
               << IF lastEvent.selBefore = lastEvent.key THEN NULL
                  ELSE lastEvent.key >>
          /\ selectedArtist = lastEvent.calls[1])
  /\ [](lastEvent.kind \notin {"clickAll", "clickArtist"} =>
          lastEvent.calls = <<>>)
  /\ [](selectedArtist \in SelValues)
  /\ [][selectedArtist' # selectedArtist =>
          lastEvent'.kind \in {"clickAll", "clickArtist", "parent"}]_vars

\* C6's case: a click on the selected artist's button has cleared the
\* selection.
C6_Witness ==
  /\ lastEvent.kind = "clickArtist"
  /\ lastEvent.selBefore = lastEvent.key
  /\ lastEvent.calls = <<NULL>>
  /\ selectedArtist = NULL

C8_EmphasisLifecycle ==
  /\ [][selectedArtist' # selectedArtist => effectsPending']_vars
  /\ ((mounted /\ effectsPending)
        ~> (mounted /\ lastEvent.kind = "effects" /\ isJiggling))
  /\ ((<>[][selectedArtist' = selectedArtist]_vars /\ []mounted)
        => <>[](~isJiggling))
  /\ ([]<><<selectedArtist' # selectedArtist>>_vars
        => []<>(lastEvent.kind = "effects" /\ isJiggling))

\* C8's case: after a second selection change the timeout armed by its
\* effects has fired, a full delay after the change, and the flag is idle
\* again.
C8_Witness ==
  /\ mounted /\ ~effectsPending
  /\ changes >= 2
  /\ lastEvent.kind = "timer"
  /\ elapsed >= jiggleMs
  /\ timers = {}
  /\ ~isJiggling

\* C9: once the component is unmounted, no timeout that fires and no resize
\* event calls a state setter of the unmounted component: the pending
\* timeout is cancelled and the listener deregistered before either can.
C9_NoSetterAfterUnmount ==
  ~mounted => ~staleUpdate

\* C10: whenever the indicator is displayed, tabStyle is the measurement of
\* the button registered under the key of the current selection, in the
\* layout as it is.  Stated for the states in which the last commit's effects
\* have run, the only ones in which the code can have measured for the
\* current selection, and with the empty string counted as no selection, as
\* the render counts it.
C10_IndicatorMatchesSelection ==
  (mounted /\ ~effectsPending /\ tabStyle.set) =>
    LET key == HighlightedKey(selectedArtist)
    IN  /\ key \in buttonRefs
        /\ tabStyle.left = BtnRect(key, viewport, labels, faces).left
                             - RowRectLeft(viewport)
        /\ tabStyle.width = BtnRect(key, viewport, labels, faces).width

\* The last step was a measurement pass, the effect's or a resize
\* listener's.
MeasurementPass(ev) ==
  /\ ev.kind \in {"effects", "resize"}
  /\ ev.measured # <<>>

\* The last step was a measurement pass and no key it looked up has a
\* registered button, or the row ref is null.
LookupFailed(ev, refs, row) ==
  /\ MeasurementPass(ev)
  /\ \A i \in DOMAIN ev.measured : ev.measured[i] \notin refs \/ ~row

\* C11 as stated: a measurement pass, after a selection change or on resize,
\* that runs while the key of the current selection has no registered
\* button, or the row ref is null, leaves tabStyle exactly as it was, and
\* leaves the selection, the filter state and the filtered list unchanged.
C11_CurrentKeyNotFoundChangesNothing ==
  [][(MeasurementPass(lastEvent')
        /\ (KeyOf(selectedArtist) \notin buttonRefs \/ ~artistRowRef)) =>
       /\ tabStyle' = tabStyle
       /\ selectedArtist' = selectedArtist
       /\ reviewFilter' = reviewFilter
       /\ filteredReviews' = filteredReviews]_vars

\* C11, amended: a measurement pass whose own lookup fails (the key it looks
\* up is that of the selection its callback captured) leaves tabStyle
\* exactly as it was (null stays null); once the effects of the last commit
\* have run that key is the current selection's, so that a pass that runs
\* while the current selection's key has no registered button leaves
\* tabStyle as it was; and no measurement pass, failed or not, changes the
\* selection, the filter state or the filtered list.
C11_FailedLookupChangesNothing ==
  /\ [][LookupFailed(lastEvent', buttonRefs, artistRowRef) =>
          tabStyle' = tabStyle]_vars
  /\ [][(MeasurementPass(lastEvent') /\ mounted /\ ~effectsPending'
            /\ (KeyOf(selectedArtist) \notin buttonRefs \/ ~artistRowRef)) =>
          tabStyle' = tabStyle]_vars
  /\ [][MeasurementPass(lastEvent') =>
          /\ selectedArtist' = selectedArtist
          /\ reviewFilter' = reviewFilter
          /\ filteredReviews' = filteredReviews]_vars

\* C11's case: with an identifier selected that has no button, a resize ran
\* the measurement, and the indicator still holds a geometry measured for
\* a registered button at the window's previous width.
C11_Witness ==
  /\ mounted /\ ~effectsPending
  /\ selectedArtist = "zz"
  /\ lastEvent.kind = "resize"
  /\ lastEvent.measured = <<"zz">>
  /\ tabStyle.set
  /\ \E v \in Viewports \ {viewport}, k \in ButtonKeys :
       tabStyle.left = BtnRect(k, v, labels, SettledFaces(k)).left
                         - RowRectLeft(v)

\* The last step was a resize that ran exactly one measurement, under the
\* key of the current selection, and tabStyle is that key's button measured
\* in the window as resized, in the layout of that time (if the key has a
\* button).
ResizeMeasuredCurrent ==
  LET key == KeyOf(selectedArtist)
  IN  /\ lastEvent.measured = <<key>>
      /\ (key \in buttonRefs /\ artistRowRef) =>
           /\ tabStyle.set
           /\ tabStyle.left = BtnRect(key, viewport, labels, faces).left
                                - RowRectLeft(viewport)
           /\ tabStyle.width = BtnRect(key, viewport, labels, faces).width

\* C12 as stated: while the component is mounted, every resize event runs
\* exactly one measurement, under the key of the selection current at the
\* time of the resize and with the button's position at that time.
C12_EveryResizeMeasuresCurrent ==
  (mounted /\ lastEvent.kind = "resize") => ResizeMeasuredCurrent

\* C12, amended: while the component is mounted and the effects of its last
\* commit have run, every resize event runs exactly one measurement, under
\* the key of the selection current at the time of the resize and with the
\* button's position at that time.  A resize between a commit and its
\* effects runs the previous commit's listener: none after the mount, the
\* one that measures under the previous selection's key after a change.
C12_ResizeAfterEffectsMeasuresCurrent ==
  /\ (mounted /\ ~effectsPending /\ lastEvent.kind = "resize") =>
       ResizeMeasuredCurrent
  /\ (mounted /\ effectsPending /\ lastEvent.kind = "resize") =>
       IF changes = 0 THEN lastEvent.measured = <<>> /\ tabStyle = TabNull
       ELSE LET key == KeyOf(prevSelected)
            IN  /\ lastEvent.measured = <<key>>
                /\ (key \in buttonRefs /\ artistRowRef) =>
                     /\ tabStyle.set
                     /\ tabStyle.left =
                          BtnRect(key, viewport, labels, faces).left
                            - RowRectLeft(viewport)
                     /\ tabStyle.width =
                          BtnRect(key, viewport, labels, faces).width

\* C12's case: after two selection changes the window was resized, and the
\* one measurement was a2's, the current selection's.
C12_Witness ==
  /\ mounted /\ ~effectsPending
  /\ changes >= 2
  /\ selectedArtist = "a2"
  /\ lastEvent.kind = "resize"
  /\ lastEvent.measured = <<"a2">>
  /\ tabStyle.left = BtnRect("a2", viewport, labels, faces).left
                       - RowRectLeft(viewport)

\* C13: the flag is true, and a timeout pending, only after a selection
\* change since the mount: mounting alone neither enters emphasizing nor
\* starts a timer.  (When the flag falls after a change is C7's part.)
C13_EmphasisOnlyAfterChange ==
  (isJiggling \/ timers # {}) => changes >= 1

====
